---- MODULE Spec2Model ----
(***************************************************************************)
(* The spreadsheet-backed publishing queue of instagram-automation.        *)
(*                                                                         *)
(* The sheet is a grid of string cells; every endpoint re-reads it on each *)
(* invocation and addresses its columns by position.  An invocation is a   *)
(* sequence of awaited calls (sheet read, sheet write, captioning, Graph   *)
(* API); one step of the model is the code between two awaits, so that     *)
(* overlapping invocations interleave exactly where the code can be        *)
(* suspended.                                                              *)
(*                                                                         *)
(* Cells are indexed as the code indexes them: row[0] is column A, row[10] *)
(* is column K.  A cell the API does not return (undefined) reads as "".   *)
(***************************************************************************)
EXTENDS Integers, Sequences, FiniteSets, TLC

VARIABLES
    sheet,      \* rows 2.. of the spreadsheet: sheet[k] is sheet row k+1
    inv,        \* per invocation slot: the handler's position and locals
    created,    \* created[k]  : createContainer calls issued for sheet[k]
    staged,     \* staged[k]   : createContainer answered ok for sheet[k]
    published,  \* published[k]: publishContainer calls issued for sheet[k]
    committed,  \* committed[k]: publishContainer answered ok for sheet[k]
    destroyed,  \* destroyed[k]: deleteAsset calls issued for sheet[k]
    errLog,     \* {<<k, m>>}: canonical Stage wrote error message m on sheet[k]
    started,    \* number of invocations started so far
    probe       \* the direct call of a row updater made on the sheet, if any

vars == <<sheet, inv, created, staged, published, committed, destroyed, errLog,
          started, probe>>

----------------------------------------------------------------------------
(* Bounds of the model *)

MaxRows == 2          \* rows of the sheet, prepared or ingested
MaxInvocations == 3   \* requests served in a run without overlap
MaxOverlapping == 2   \* requests served in a run where they may overlap

Slots == {"a", "b"}
FirstSlot == "a"

----------------------------------------------------------------------------
(* Cells, rows, A1 notation *)

Cols == 0..10

BlankRow == [c \in Cols |-> ""]

\* JavaScript truthiness of a string cell
Truthy(s) == s # ""

\* `${sheetName}!H${rowIndex}`: the column letter of an A1 range as an index
ColumnIndex(letter) ==
    CASE letter = "A" -> 0 [] letter = "B" -> 1 [] letter = "C" -> 2
      [] letter = "D" -> 3 [] letter = "E" -> 4 [] letter = "F" -> 5
      [] letter = "G" -> 6 [] letter = "H" -> 7 [] letter = "I" -> 8
      [] letter = "J" -> 9 [] letter = "K" -> 10

\* A row as values.get returns it for A2:<lastCol>, read through `row[i] || ""`:
\* the cells right of the range are undefined
ClipRow(row, lastCol) ==
    [c \in Cols |-> IF c <= ColumnIndex(lastCol) THEN row[c] ELSE ""]

RowIsEmpty(row) == \A c \in Cols : row[c] = ""

\* values.get omits the empty rows that trail the data of the range
RECURSIVE TrimTrailing(_)
TrimTrailing(rows) ==
    IF rows = <<>> THEN <<>>
    ELSE IF RowIsEmpty(rows[Len(rows)])
         THEN TrimTrailing(SubSeq(rows, 1, Len(rows) - 1))
         ELSE rows

\* sheets.spreadsheets.values.get({range: `${sheetName}!A2:<lastCol>`})
ReadRange(sh, lastCol) ==
    TrimTrailing([k \in 1..Len(sh) |-> ClipRow(sh[k], lastCol)])

\* sheets.spreadsheets.values.get of the single cell <letter><rowIndex>
ReadCell(sh, letter, rowIndex) ==
    IF rowIndex - 1 \in 1..Len(sh) THEN sh[rowIndex - 1][ColumnIndex(letter)] ELSE ""

\* sheets.spreadsheets.values.update of the single cell <letter><rowIndex>
WriteCell(sh, letter, rowIndex, value) ==
    [sh EXCEPT ![rowIndex - 1][ColumnIndex(letter)] = value]

\* the selectors' "no row" answer (null)
Null == [rowIndex |-> 0, data |-> BlankRow]

\* new Date().toISOString() under a fixed clock
NowISO == "2025-10-23T10:30:00.000Z"

----------------------------------------------------------------------------
(* Replies of the external collaborators *)

\* POST graph.facebook.com/.../media : response.ok with {id}, a non-ok response
\* with an error payload (message and code may be missing), or a rejected fetch
CreateReplies ==
    { [kind |-> "ok", status |-> 200, message |-> "", code |-> ""],
      [kind |-> "error", status |-> 400, message |-> "Invalid parameter",
       code |-> "100"],
      [kind |-> "throw", status |-> 0, message |-> "fetch failed", code |-> ""] }

RECURSIVE Sum(_)
Sum(counts) == IF counts = <<>> THEN 0 ELSE Head(counts) + Sum(Tail(counts))

\* the id of the container a successful createContainer makes: one per call
ContainerId(n) ==
    "1789" \o <<"0", "1", "2", "3", "4", "5", "6", "7", "8", "9">>[(n % 10) + 1]

\* POST graph.facebook.com/.../media_publish
PublishReplies ==
    { [kind |-> "ok", status |-> 200, id |-> "90001", message |-> "", code |-> ""],
      [kind |-> "error", status |-> 400, id |-> "",
       message |-> "Media ID is not available", code |-> "9007"],
      [kind |-> "throw", status |-> 0, id |-> "", message |-> "fetch failed",
       code |-> ""] }

\* generateCaption: the trimmed completion, or a thrown Error
CaptionReplies ==
    { [ok |-> TRUE,  text |-> "Great clip! #fun"],
      [ok |-> FALSE, text |-> "Failed to generate caption from AI"] }

----------------------------------------------------------------------------
(* Invocation slots *)

\* no upstream payload
NoDetails == [message |-> "", code |-> ""]

\* searchParams.get(name): the value, or null when the parameter is absent
Param(value) == [present |-> TRUE, value |-> value]
NoParam == [present |-> FALSE, value |-> ""]

\* a notification without any of the tags extractVideoData looks for
NoPayload ==
    [videoId |-> "", title |-> "", description |-> "", thumbnail |-> "",
     published |-> ""]

\* what a request carries: the query of a verification, the body of a notification
NoReq == [mode |-> NoParam, challenge |-> NoParam, xml |-> NoPayload]

NoResp ==
    [status |-> 0, success |-> FALSE, skipped |-> FALSE, row |-> 0, body |-> "",
     creationId |-> "", captionGenerated |-> FALSE, publishedAt |-> "",
     mediaId |-> "", error |-> "", details |-> NoDetails,
     totalRowsProcessed |-> 0, deletedCount |-> 0, results |-> <<>>]

Idle ==
    [kind |-> "idle", pc |-> "idle", rowIndex |-> 0, data |-> BlankRow,
     caption |-> "", captionGenerated |-> FALSE, errorMsg |-> "",
     existingError |-> "", failStatus |-> 0, failError |-> "",
     failDetails |-> NoDetails, id |-> "",
     batch |-> <<>>, results |-> <<>>, deletedCount |-> 0,
     req |-> NoReq, triggered |-> FALSE,
     resp |-> NoResp]

\* no updater has been called directly
NoProbe == [fn |-> "", rowIndex |-> 0, error |-> "", before |-> ""]

\* a slot is free before its first request and after it has responded
Free(p) == inv[p].pc \in {"idle", "done"}

\* A request can arrive while fewer than `limit` have been served.  Slots are
\* interchangeable, so a request takes the first slot unless it is busy.
CanStart(p, limit) ==
    /\ Free(p)
    /\ started < limit
    /\ probe = NoProbe
    /\ (p = FirstSlot \/ ~Free(FirstSlot))

\* NextResponse.json(..., {status}) : the handler returns; its locals are gone,
\* the response stays visible until the slot serves its next request
Respond(p, r) ==
    [inv EXCEPT ![p] = [Idle EXCEPT !.kind = inv[p].kind, !.pc = "done",
                                    !.rowIndex = inv[p].rowIndex, !.resp = r]]

\* a request that is answered before its first await
RespondAtOnce(p, kind, r) ==
    [inv EXCEPT ![p] = [Idle EXCEPT !.kind = kind, !.pc = "done", !.resp = r]]

----------------------------------------------------------------------------
(* Stage, canonical 11-column layout (unnamed/part_001) *)

\* StageReady without the test of the creation id
StageReady_ignoresCreationId(row) ==
    Truthy(row[2]) /\ ~Truthy(row[8]) /\ ~Truthy(row[10])

\* StageReady that also takes a row with a caption for a row already handled
StageReady_requiresEmptyCaption(row) ==
    Truthy(row[2]) /\ ~Truthy(row[8]) /\ ~Truthy(row[9]) /\ ~Truthy(row[10])
    /\ ~Truthy(row[7])

StageReady(row) ==
    LET cloudinaryUrl == row[2]
        publishedAt   == row[8]
        creationId    == row[9]
        error         == row[10]
    IN  Truthy(cloudinaryUrl) /\ ~Truthy(publishedAt) /\ ~Truthy(creationId)
        /\ ~Truthy(error)

\* for (let i = 0; i < rows.length; i++) ... return {rowIndex: i + 2, data}
RECURSIVE StageScan(_, _)
StageScan(rows, i) ==
    IF i >= Len(rows) THEN Null
    ELSE IF StageReady(rows[i + 1])
         THEN [rowIndex |-> i + 2, data |-> rows[i + 1]]
         ELSE StageScan(rows, i + 1)

Stage_getNextUnprocessedRow(sh) == StageScan(ReadRange(sh, "K"), 0)

\* newError without the existing text
Stage_newError_overwrites(existingError, error) == error

\* const newError = existingError ? `${existingError}\n${updates.error}` : updates.error
Stage_newError(existingError, error) ==
    IF Truthy(existingError) THEN existingError \o "\n" \o error ELSE error

\* the updater with the creation id addressed one column to the left (I)
Stage_updateSheetRow_idInColumnI(sh, rowIndex, updates) ==
    LET s1 == IF "caption" \in DOMAIN updates
              THEN WriteCell(sh, "H", rowIndex, updates.caption) ELSE sh
        s2 == IF "creationId" \in DOMAIN updates
              THEN WriteCell(s1, "I", rowIndex, updates.creationId) ELSE s1
    IN  IF "error" \in DOMAIN updates
        THEN WriteCell(s2, "K", rowIndex,
                       (IF Truthy(ReadCell(s2, "K", rowIndex))
                        THEN ReadCell(s2, "K", rowIndex) \o "\n" ELSE "")
                       \o updates.error)
        ELSE s2

\* the updater as a full update: a field absent from the update is blanked
Stage_updateSheetRow_blanksAbsent(sh, rowIndex, updates) ==
    LET s1 == WriteCell(sh, "H", rowIndex,
                        IF "caption" \in DOMAIN updates THEN updates.caption ELSE "")
        s2 == WriteCell(s1, "J", rowIndex,
                        IF "creationId" \in DOMAIN updates THEN updates.creationId
                        ELSE "")
    IN  IF "error" \in DOMAIN updates
        THEN WriteCell(s2, "K", rowIndex,
                       (IF Truthy(ReadCell(s2, "K", rowIndex))
                        THEN ReadCell(s2, "K", rowIndex) \o "\n" ELSE "")
                       \o updates.error)
        ELSE s2

\* updateSheetRow of part_001: caption to H, creationId to J (a field is written
\* when it is not undefined), error appended to what K holds
Stage_updateSheetRow(sh, rowIndex, updates) ==
    LET s1 == IF "caption" \in DOMAIN updates
              THEN WriteCell(sh, "H", rowIndex, updates.caption) ELSE sh
        s2 == IF "creationId" \in DOMAIN updates
              THEN WriteCell(s1, "J", rowIndex, updates.creationId) ELSE s1
    IN  IF "error" \in DOMAIN updates
        THEN WriteCell(s2, "K", rowIndex,
                       Stage_newError(ReadCell(s2, "K", rowIndex), updates.error))
        ELSE s2

\* `[${new Date().toISOString()}] UPLOAD: ...`
Stage_errorMsg(text) == "[" \o NowISO \o "] UPLOAD: " \o text

\* `${responseData.error?.message || "Facebook API error"} (Code: ${responseData.error?.code || "unknown"})`
Stage_apiErrorText(reply) ==
    (IF Truthy(reply.message) THEN reply.message ELSE "Facebook API error")
    \o " (Code: " \o (IF Truthy(reply.code) THEN reply.code ELSE "unknown") \o ")"

\* the catch-all of a handler: status 500, "Internal server error"
InternalError(p) ==
    Respond(p, [NoResp EXCEPT !.status = 500, !.error = "Internal server error"])

\* StageFail that goes on to the createContainer call
StageFail_thenCreates(p, msg, status, err, nr) ==
    [inv EXCEPT ![p] = [Idle EXCEPT !.kind = "stage", !.pc = "create",
                !.rowIndex = nr.rowIndex, !.data = nr.data]]

\* an error is to be recorded on the row, then the failure reported
StageFail(p, msg, status, err, nr) ==
    [inv EXCEPT ![p] = [Idle EXCEPT !.kind = "stage", !.pc = "errRead",
                !.rowIndex = nr.rowIndex, !.data = nr.data,
                !.errorMsg = msg, !.failStatus = status,
                !.failError = err]]

\* POST up to the first await after the row is chosen
StageSelect(p, limit) ==
    /\ CanStart(p, limit)
    /\ started' = started + 1
    /\ LET nextRow == Stage_getNextUnprocessedRow(sheet) IN
       IF nextRow = Null
       THEN inv' = RespondAtOnce(p, "stage", [NoResp EXCEPT !.status = 404,
                                 !.error = "No unprocessed rows found"])
       ELSE IF ~Truthy(nextRow.data[2])
       THEN inv' = StageFail(p, Stage_errorMsg("Missing Cloudinary URL"), 400,
                             Stage_errorMsg("Missing Cloudinary URL"), nextRow)
       ELSE IF ~Truthy(nextRow.data[3])
       THEN inv' = StageFail(p, Stage_errorMsg("Missing video title"), 400,
                             Stage_errorMsg("Missing video title"), nextRow)
       ELSE inv' = [inv EXCEPT ![p] = [Idle EXCEPT !.kind = "stage",
                        !.rowIndex = nextRow.rowIndex,
                        !.data = nextRow.data,
                        !.caption = nextRow.data[7],
                        !.pc = IF Truthy(nextRow.data[7]) THEN "create"
                                  ELSE "caption"]]
    /\ UNCHANGED <<sheet, created, staged, published, committed, destroyed, errLog, probe>>

\* caption = await generateCaption(data.title, data.description)
StageCaption(p) ==
    /\ inv[p].kind = "stage" /\ inv[p].pc = "caption"
    /\ \E reply \in CaptionReplies :
         IF reply.ok
         THEN inv' = [inv EXCEPT ![p].caption = reply.text,
                          ![p].captionGenerated = TRUE,
                          ![p].pc = "writeCaption"]
         ELSE inv' = [inv EXCEPT ![p].pc = "errRead",
                          ![p].errorMsg = Stage_errorMsg(
                              "Failed to generate caption - " \o reply.text),
                          ![p].failStatus = 500,
                          ![p].failError = "Failed to generate caption"]
    /\ UNCHANGED <<sheet, created, staged, published, committed, destroyed, errLog, started, probe>>

\* the caption step without its write to the sheet
StageWriteCaption_skipsWrite(p) ==
    /\ inv[p].kind = "stage" /\ inv[p].pc = "writeCaption"
    /\ inv' = [inv EXCEPT ![p].pc = "create"]
    /\ UNCHANGED <<sheet, created, staged, published, committed, destroyed, errLog, started,
                   probe>>

\* await updateSheetRow(sheets, sheetName, rowIndex, { caption })
StageWriteCaption(p) ==
    /\ inv[p].kind = "stage" /\ inv[p].pc = "writeCaption"
    /\ sheet' = Stage_updateSheetRow(sheet, inv[p].rowIndex,
                                     [caption |-> inv[p].caption])
    /\ inv' = [inv EXCEPT ![p].pc = "create"]
    /\ UNCHANGED <<created, staged, published, committed, destroyed, errLog, started, probe>>

\* new URLSearchParams({media_type, caption, cover_url, video_url}): what the
\* createContainer call carries (cover_url is video_url with its extension
\* replaced, and is left out)
Stage_params(caption, data) ==
    [media_type |-> "REELS", caption |-> caption, video_url |-> data[2]]

\* await fetch(`${apiUrl}?${params}`) ; await response.json()
StageCreate(p) ==
    /\ inv[p].kind = "stage" /\ inv[p].pc = "create"
    /\ created' = [created EXCEPT ![inv[p].rowIndex - 1] = @ + 1]
    /\ \E reply \in CreateReplies :
         /\ staged' = [staged EXCEPT ![inv[p].rowIndex - 1] = @ \/ reply.kind = "ok"]
         /\ CASE reply.kind = "ok" ->
                inv' = [inv EXCEPT ![p].id = ContainerId(Sum(created)),
                            ![p].pc = "writeCid"]
           [] reply.kind = "error" ->
                inv' = [inv EXCEPT ![p].pc = "errRead",
                            ![p].errorMsg = Stage_errorMsg(Stage_apiErrorText(reply)),
                            ![p].failStatus = reply.status,
                            ![p].failError = "Facebook API error",
                            ![p].failDetails = [message |-> reply.message,
                                                code |-> reply.code]]
           [] reply.kind = "throw" -> inv' = InternalError(p)
    /\ UNCHANGED <<sheet, published, committed, destroyed, errLog, started, probe>>

\* the success path without its write of the creation id
StageWriteCid_skipsWrite(p) ==
    /\ inv[p].kind = "stage" /\ inv[p].pc = "writeCid"
    /\ inv' = Respond(p, [NoResp EXCEPT !.status = 200, !.success = TRUE,
                            !.creationId = inv[p].id, !.row = inv[p].rowIndex,
                            !.captionGenerated = inv[p].captionGenerated])
    /\ UNCHANGED <<sheet, created, staged, published, committed, destroyed, errLog,
                   started, probe>>

\* await updateSheetRow(sheets, sheetName, rowIndex, { creationId }) ; success
StageWriteCid(p) ==
    /\ inv[p].kind = "stage" /\ inv[p].pc = "writeCid"
    /\ sheet' = Stage_updateSheetRow(sheet, inv[p].rowIndex,
                                     [creationId |-> inv[p].id])
    /\ inv' = Respond(p, [NoResp EXCEPT !.status = 200, !.success = TRUE,
                            !.creationId = inv[p].id, !.row = inv[p].rowIndex,
                            !.captionGenerated = inv[p].captionGenerated])
    /\ UNCHANGED <<created, staged, published, committed, destroyed, errLog, started, probe>>

\* updateSheetRow({error}): existingResponse = await values.get(K<rowIndex>)
StageErrRead(p) ==
    /\ inv[p].kind = "stage" /\ inv[p].pc = "errRead"
    /\ inv' = [inv EXCEPT ![p].existingError = ReadCell(sheet, "K", inv[p].rowIndex),
                   ![p].pc = "errWrite"]
    /\ UNCHANGED <<sheet, created, staged, published, committed, destroyed, errLog, started, probe>>

\* updateSheetRow({error}): await values.update(K<rowIndex>, newError) ; failure
StageErrWrite(p) ==
    /\ inv[p].kind = "stage" /\ inv[p].pc = "errWrite"
    /\ sheet' = WriteCell(sheet, "K", inv[p].rowIndex,
                          Stage_newError(inv[p].existingError, inv[p].errorMsg))
    /\ errLog' = errLog \cup {<<inv[p].rowIndex - 1, inv[p].errorMsg>>}
    /\ inv' = Respond(p, [NoResp EXCEPT !.status = inv[p].failStatus,
                            !.error = inv[p].failError,
                            !.details = inv[p].failDetails,
                            !.row = inv[p].rowIndex])
    /\ UNCHANGED <<created, staged, published, committed, started, destroyed, probe>>

----------------------------------------------------------------------------
(* Upload, simple 6-column layout (src/app/api/upload/route.ts) *)

\* UploadReady without the test of the error cell
UploadReady_ignoresError(row) == ~Truthy(row[3])

UploadReady(row) ==
    LET publishedAt == row[3]
        error       == row[5]
    IN  ~Truthy(publishedAt) /\ ~Truthy(error)

RECURSIVE UploadScan(_, _)
UploadScan(rows, i) ==
    IF i >= Len(rows) THEN Null
    ELSE IF UploadReady(rows[i + 1])
         THEN [rowIndex |-> i + 2, data |-> rows[i + 1]]
         ELSE UploadScan(rows, i + 1)

Upload_getNextUnprocessedRow(sh) == UploadScan(ReadRange(sh, "F"), 0)

\* the updater without its `if (updates.x)` guards: an absent field is written
\* as an empty cell
Upload_updateSheetRow_unguarded(sh, rowIndex, updates) ==
    LET s1 == WriteCell(sh, "E", rowIndex,
                        IF "creationId" \in DOMAIN updates THEN updates.creationId
                        ELSE "")
    IN  WriteCell(s1, "F", rowIndex,
                  IF "error" \in DOMAIN updates THEN updates.error ELSE "")

\* the updater writes a field only when it is truthy: E for creationId, F for error
Upload_updateSheetRow(sh, rowIndex, updates) ==
    LET s1 == IF "creationId" \in DOMAIN updates /\ Truthy(updates.creationId)
              THEN WriteCell(sh, "E", rowIndex, updates.creationId) ELSE sh
    IN  IF "error" \in DOMAIN updates /\ Truthy(updates.error)
        THEN WriteCell(s1, "F", rowIndex, updates.error) ELSE s1

\* `UPLOAD: ${responseData.error?.message || "Facebook API error"}`
Upload_apiErrorMsg(reply) ==
    "UPLOAD: " \o (IF Truthy(reply.message) THEN reply.message
                   ELSE "Facebook API error")

UploadSelect(p, limit) ==
    /\ CanStart(p, limit)
    /\ started' = started + 1
    /\ LET nextRow == Upload_getNextUnprocessedRow(sheet) IN
       IF nextRow = Null
       THEN inv' = RespondAtOnce(p, "upload", [NoResp EXCEPT !.status = 404,
                                 !.error = "No unprocessed rows found in the sheet"])
       ELSE IF ~Truthy(nextRow.data[2]) \/ ~Truthy(nextRow.data[1])
       THEN inv' = [inv EXCEPT ![p] = [Idle EXCEPT !.kind = "upload", !.pc = "errWrite",
                        !.rowIndex = nextRow.rowIndex, !.data = nextRow.data,
                        !.errorMsg = "UPLOAD: Missing video link or caption in sheet",
                        !.failStatus = 400,
                        !.failError = "UPLOAD: Missing video link or caption in sheet"]]
       ELSE inv' = [inv EXCEPT ![p] = [Idle EXCEPT !.kind = "upload", !.pc = "create",
                        !.rowIndex = nextRow.rowIndex, !.data = nextRow.data,
                        !.caption = nextRow.data[1]]]
    /\ UNCHANGED <<sheet, created, staged, published, committed, destroyed, errLog, probe>>

UploadCreate(p) ==
    /\ inv[p].kind = "upload" /\ inv[p].pc = "create"
    /\ created' = [created EXCEPT ![inv[p].rowIndex - 1] = @ + 1]
    /\ \E reply \in CreateReplies :
         /\ staged' = [staged EXCEPT ![inv[p].rowIndex - 1] = @ \/ reply.kind = "ok"]
         /\ CASE reply.kind = "ok" ->
                inv' = [inv EXCEPT ![p].id = ContainerId(Sum(created)),
                            ![p].pc = "writeCid"]
           [] reply.kind = "error" ->
                inv' = [inv EXCEPT ![p].pc = "errWrite",
                            ![p].errorMsg = Upload_apiErrorMsg(reply),
                            ![p].failStatus = reply.status,
                            ![p].failError = "Facebook API error",
                            ![p].failDetails = [message |-> reply.message,
                                                code |-> reply.code]]
           [] reply.kind = "throw" -> inv' = InternalError(p)
    /\ UNCHANGED <<sheet, published, committed, destroyed, errLog, started, probe>>

UploadWriteCid(p) ==
    /\ inv[p].kind = "upload" /\ inv[p].pc = "writeCid"
    /\ sheet' = Upload_updateSheetRow(sheet, inv[p].rowIndex,
                                      [creationId |-> inv[p].id])
    /\ inv' = Respond(p, [NoResp EXCEPT !.status = 200, !.success = TRUE,
                            !.creationId = inv[p].id, !.row = inv[p].rowIndex])
    /\ UNCHANGED <<created, staged, published, committed, destroyed, errLog, started, probe>>

UploadErrWrite(p) ==
    /\ inv[p].kind = "upload" /\ inv[p].pc = "errWrite"
    /\ sheet' = Upload_updateSheetRow(sheet, inv[p].rowIndex,
                                      [error |-> inv[p].errorMsg])
    /\ inv' = Respond(p, [NoResp EXCEPT !.status = inv[p].failStatus,
                            !.error = inv[p].failError,
                            !.details = inv[p].failDetails,
                            !.row = inv[p].rowIndex])
    /\ UNCHANGED <<created, staged, published, committed, destroyed, errLog, started, probe>>

----------------------------------------------------------------------------
(* Commit (src/app/api/publish/route.ts) *)

\* CommitReady without the test of publishedAt
CommitReady_ignoresPublishedAt(row) ==
    Truthy(row[5]) /\ ~Truthy(row[6])

\* CommitReady without the test of the error cell
CommitReady_ignoresError(row) == Truthy(row[5]) /\ ~Truthy(row[4])

CommitReady(row) ==
    LET creationId  == row[5]
        publishedAt == row[4]
        error       == row[6]
    IN  Truthy(creationId) /\ ~Truthy(publishedAt) /\ ~Truthy(error)

RECURSIVE CommitScan(_, _)
CommitScan(rows, i) ==
    IF i >= Len(rows) THEN Null
    ELSE IF CommitReady(rows[i + 1])
         THEN [rowIndex |-> i + 2, data |-> rows[i + 1]]
         ELSE CommitScan(rows, i + 1)

getNextPublishableRow(sh) == CommitScan(ReadRange(sh, "G"), 0)

\* the updater addressing the columns the guide names for Publish: D and F
Commit_updateSheetRow_guideColumns(sh, rowIndex, updates) ==
    LET s1 == IF "publishedAt" \in DOMAIN updates /\ Truthy(updates.publishedAt)
              THEN WriteCell(sh, "D", rowIndex, updates.publishedAt) ELSE sh
    IN  IF "error" \in DOMAIN updates /\ Truthy(updates.error)
        THEN WriteCell(s1, "F", rowIndex, updates.error) ELSE s1

\* the updater writes a field only when it is truthy: E for publishedAt, G for error
Commit_updateSheetRow(sh, rowIndex, updates) ==
    LET s1 == IF "publishedAt" \in DOMAIN updates /\ Truthy(updates.publishedAt)
              THEN WriteCell(sh, "E", rowIndex, updates.publishedAt) ELSE sh
    IN  IF "error" \in DOMAIN updates /\ Truthy(updates.error)
        THEN WriteCell(s1, "G", rowIndex, updates.error) ELSE s1

\* `PUBLISH: ${responseData.error?.message || "Facebook API error"}`
Commit_apiErrorMsg(reply) ==
    "PUBLISH: " \o (IF Truthy(reply.message) THEN reply.message
                    ELSE "Facebook API error")

CommitSelect(p, limit) ==
    /\ CanStart(p, limit)
    /\ started' = started + 1
    /\ LET nextRow == getNextPublishableRow(sheet) IN
       IF nextRow = Null
       THEN inv' = RespondAtOnce(p, "commit", [NoResp EXCEPT !.status = 404,
                                 !.error = "No publishable rows found"])
       ELSE inv' = [inv EXCEPT ![p] = [Idle EXCEPT !.kind = "commit", !.pc = "publish",
                        !.rowIndex = nextRow.rowIndex, !.data = nextRow.data]]
    /\ UNCHANGED <<sheet, created, staged, published, committed, destroyed, errLog, probe>>

\* fetch(media_publish?creation_id=data.creationId) ; response.json()
CommitPublish(p) ==
    /\ inv[p].kind = "commit" /\ inv[p].pc = "publish"
    /\ published' = [published EXCEPT ![inv[p].rowIndex - 1] = @ + 1]
    /\ \E reply \in PublishReplies :
         CASE reply.kind = "ok" ->
                /\ inv' = [inv EXCEPT ![p].id = reply.id, ![p].pc = "writePub"]
                /\ committed' = [committed EXCEPT ![inv[p].rowIndex - 1] = TRUE]
           [] reply.kind = "error" ->
                /\ inv' = [inv EXCEPT ![p].pc = "errWrite",
                               ![p].errorMsg = Commit_apiErrorMsg(reply),
                               ![p].failStatus = reply.status,
                               ![p].failError = "Facebook API error",
                               ![p].failDetails = [message |-> reply.message,
                                                   code |-> reply.code]]
                /\ UNCHANGED committed
           [] reply.kind = "throw" ->
                /\ inv' = InternalError(p)
                /\ UNCHANGED committed
    /\ UNCHANGED <<sheet, created, staged, destroyed, errLog, started, probe>>

\* publishedAt = new Date().toISOString() ; updateSheetRow({publishedAt}) ; success
CommitWritePub(p) ==
    /\ inv[p].kind = "commit" /\ inv[p].pc = "writePub"
    /\ sheet' = Commit_updateSheetRow(sheet, inv[p].rowIndex,
                                      [publishedAt |-> NowISO])
    /\ inv' = Respond(p, [NoResp EXCEPT !.status = 200, !.success = TRUE,
                            !.publishedAt = NowISO, !.mediaId = inv[p].id,
                            !.row = inv[p].rowIndex])
    /\ UNCHANGED <<created, staged, published, committed, destroyed, errLog, started, probe>>

CommitErrWrite(p) ==
    /\ inv[p].kind = "commit" /\ inv[p].pc = "errWrite"
    /\ sheet' = Commit_updateSheetRow(sheet, inv[p].rowIndex,
                                      [error |-> inv[p].errorMsg])
    /\ inv' = Respond(p, [NoResp EXCEPT !.status = inv[p].failStatus,
                            !.error = inv[p].failError,
                            !.details = inv[p].failDetails,
                            !.row = inv[p].rowIndex])
    /\ UNCHANGED <<created, staged, published, committed, destroyed, errLog, started, probe>>

----------------------------------------------------------------------------
(* Ingest-verify and Ingest-notify (src/app/api/youtube-webhook/route.ts) *)

\* hub.mode and hub.challenge of a verification request
HubModes == {Param("subscribe"), Param("unsubscribe"), NoParam}
HubChallenges == {Param("abc123"), Param(""), NoParam}

\* IngestVerify_reply that answers a subscription whatever the challenge
IngestVerify_reply_ignoresChallenge(mode, challenge) ==
    IF mode = Param("subscribe")
    THEN [NoResp EXCEPT !.status = 200, !.body = challenge.value]
    ELSE [NoResp EXCEPT !.status = 400, !.body = "Invalid verification"]

\* if (mode === "subscribe" && challenge) return new NextResponse(challenge, 200)
IngestVerify_reply(mode, challenge) ==
    IF mode = Param("subscribe") /\ challenge.present /\ Truthy(challenge.value)
    THEN [NoResp EXCEPT !.status = 200, !.body = challenge.value]
    ELSE [NoResp EXCEPT !.status = 400, !.body = "Invalid verification"]

\* GET: the hub's verification of a subscription
IngestVerify(p, limit) ==
    /\ CanStart(p, limit)
    /\ started' = started + 1
    /\ \E mode \in HubModes, challenge \in HubChallenges :
         inv' = [RespondAtOnce(p, "verify", IngestVerify_reply(mode, challenge))
                    EXCEPT ![p].req = [NoReq EXCEPT !.mode = mode,
                                                     !.challenge = challenge]]
    /\ UNCHANGED <<sheet, created, staged, published, committed, destroyed, errLog, probe>>

\* The notification, as extractVideoData's five matches see it: the text of
\* each tag, "" when the tag is absent
Payloads ==
    { [videoId |-> "dQw4w9WgXcQ", title |-> "Morning run", description |-> "",
       thumbnail |-> "", published |-> "2025-10-22T08:00:00+00:00"],
      [videoId |-> "a1b2c3", title |-> "Daily #Shorts", description |-> "tips",
       thumbnail |-> "https://i.ytimg.com/vi/a1b2c3/hq.jpg", published |-> ""],
      [videoId |-> "a1b2c3", title |-> "Full episode", description |-> "long talk",
       thumbnail |-> "", published |-> "2025-10-22T08:00:00+00:00"],
      [videoId |-> "", title |-> "Morning run", description |-> "",
       thumbnail |-> "", published |-> ""] }

\* /shorts/i.test(s), over the texts of Payloads
MatchesShorts(s) == s \in {"Daily #Shorts"}

\* isShort without the test of the identifier's length
isShort_ignoresLength(videoId, title, description) ==
    MatchesShorts(title) \/ MatchesShorts(description)

isShort(videoId, title, description) ==
    MatchesShorts(title) \/ MatchesShorts(description) \/ Len(videoId) = 11

extractVideoData(xml) ==
    [videoId |-> xml.videoId, title |-> xml.title, description |-> xml.description,
     thumbnail |-> xml.thumbnail, publishedAt |-> xml.published,
     shortUrl |-> "https://www.youtube.com/shorts/" \o xml.videoId]

\* const row = [timestamp, shortUrl, "", title, description, thumbnail, "", "",
\*              publishedAt, "", ""]
IngestRow(v) ==
    [c \in Cols |->
        CASE c = 0 -> NowISO        [] c = 1 -> v.shortUrl
          [] c = 2 -> ""            [] c = 3 -> v.title
          [] c = 4 -> v.description [] c = 5 -> v.thumbnail
          [] c = 6 -> ""            [] c = 7 -> ""
          [] c = 8 -> v.publishedAt [] c = 9 -> ""
          [] c = 10 -> ""]

PendingAppends == Cardinality({q \in Slots : inv[q].kind = "ingest" /\ inv[q].pc = "append"})

\* POST up to `await appendToSheet(row)`
IngestReceive(p, limit) ==
    /\ CanStart(p, limit)
    /\ Len(sheet) + PendingAppends < MaxRows
    /\ started' = started + 1
    /\ \E xml \in Payloads :
         LET v == extractVideoData(xml) IN
         IF ~Truthy(v.videoId)
         THEN inv' = [RespondAtOnce(p, "ingest", [NoResp EXCEPT !.status = 400,
                                                       !.error = "No video ID"])
                         EXCEPT ![p].req = [NoReq EXCEPT !.xml = xml]]
         ELSE IF ~isShort(v.videoId, v.title, v.description)
         THEN inv' = [RespondAtOnce(p, "ingest", [NoResp EXCEPT !.status = 200,
                                                       !.skipped = TRUE])
                         EXCEPT ![p].req = [NoReq EXCEPT !.xml = xml]]
         ELSE inv' = [inv EXCEPT ![p] = [Idle EXCEPT !.kind = "ingest", !.pc = "append",
                          !.data = IngestRow(v),
                          !.req = [NoReq EXCEPT !.xml = xml]]]
    /\ UNCHANGED <<sheet, created, staged, published, committed, destroyed, errLog, probe>>

\* await appendToSheet(row): the row goes below the last row of the table
IngestAppend(p) ==
    /\ inv[p].kind = "ingest" /\ inv[p].pc = "append"
    /\ sheet' = Append(sheet, inv[p].data)
    /\ created' = Append(created, 0)
    /\ staged' = Append(staged, FALSE)
    /\ published' = Append(published, 0)
    /\ committed' = Append(committed, FALSE)
    /\ destroyed' = Append(destroyed, 0)
    /\ inv' = [inv EXCEPT ![p].pc = "trigger", ![p].rowIndex = Len(sheet) + 2]
    /\ UNCHANGED <<errLog, started, probe>>

\* await fetch(VPS_URL, ...): any response resolves; a rejected fetch is caught
IngestTrigger(p) ==
    /\ inv[p].kind = "ingest" /\ inv[p].pc = "trigger"
    /\ \E resolved \in BOOLEAN :
         inv' = [(IF resolved
                  THEN Respond(p, [NoResp EXCEPT !.status = 200, !.success = TRUE,
                                     !.row = inv[p].rowIndex])
                  ELSE Respond(p, [NoResp EXCEPT !.status = 500, !.error = "fetch failed",
                                     !.row = inv[p].rowIndex]))
                    EXCEPT ![p].triggered = TRUE]
    /\ UNCHANGED <<sheet, created, staged, published, committed, destroyed, errLog, started, probe>>

\* The external processing step: it fills the Cloudinary URL (column C) that
\* Ingest left empty on a row carrying a source URL
MediaUrl == "https://host/upload/v123/folder/clip.mp4"

FillMedia(k) ==
    /\ k \in 1..Len(sheet)
    /\ sheet[k][2] = "" /\ sheet[k][1] # ""
    /\ sheet' = [sheet EXCEPT ![k][2] = MediaUrl]
    /\ UNCHANGED <<inv, created, staged, published, committed, destroyed, errLog, started, probe>>

----------------------------------------------------------------------------
(* Reap (unnamed/part_002) *)

\* A URL is a sequence of words: a prefix, the marker of the upload path, an
\* optional version, the path segments and the extension
UrlWords(u) ==
    LET RECURSIVE Path(_)
        Path(segs) == IF segs = <<>> THEN <<>>
                      ELSE <<"/", Head(segs)>> \o Path(Tail(segs))
    IN  <<u.prefix>> \o (IF u.marker = "" THEN <<>> ELSE <<u.marker>>)
            \o (IF u.version = "" THEN <<>> ELSE <<u.version>>)
            \o Path(u.segs) \o <<".", u.ext>>

\* the characters of a word
Spell(w) ==
    CASE w = "https://host" ->
           <<"h", "t", "t", "p", "s", ":", "/", "/", "h", "o", "s", "t">>
      [] w = "https://res.cloudinary.com/demo/video" ->
           <<"h", "t", "t", "p", "s", ":", "/", "/", "r", "e", "s", ".", "c",
           "l", "o", "u", "d", "i", "n", "a", "r", "y", ".", "c",
           "o", "m", "/", "d", "e", "m", "o", "/", "v", "i", "d",
           "e", "o">>
      [] w = "https://example.com" ->
           <<"h", "t", "t", "p", "s", ":", "/", "/", "e", "x", "a", "m", "p",
           "l", "e", ".", "c", "o", "m">>
      [] w = "/upload" ->
           <<"/", "u", "p", "l", "o", "a", "d">>
      [] w = "/uploads" ->
           <<"/", "u", "p", "l", "o", "a", "d", "s">>
      [] w = "/v123" ->
           <<"/", "v", "1", "2", "3">>
      [] w = "/" ->
           <<"/">>
      [] w = "." ->
           <<".">>
      [] w = "folder" ->
           <<"f", "o", "l", "d", "e", "r">>
      [] w = "clip" ->
           <<"c", "l", "i", "p">>
      [] w = "v2" ->
           <<"v", "2">>
      [] w = "mp4" ->
           <<"m", "p", "4">>
      [] w = "video2" ->
           <<"v", "i", "d", "e", "o", "2">>
      [] w = "video3" ->
           <<"v", "i", "d", "e", "o", "3">>
      [] w = "video6" ->
           <<"v", "i", "d", "e", "o", "6">>
      [] OTHER -> <<>>

\* the URL as the string a cell holds
RECURSIVE UrlString(_)
UrlString(ws) == IF ws = <<>> THEN "" ELSE Head(ws) \o UrlString(Tail(ws))

\* the URL as the characters the regex runs over
RECURSIVE UrlChars(_)
UrlChars(ws) == IF ws = <<>> THEN <<>> ELSE Spell(Head(ws)) \o UrlChars(Tail(ws))

\* <prefix>/upload[/v<digits>]/<seg1>/.../<segN>.<ext>
ShapedUrls ==
    [prefix : {"https://host"}, marker : {"/upload"}, version : {"", "/v123"},
     segs : {<<"clip">>, <<"folder", "clip">>, <<"v2", "clip">>}, ext : {"mp4"}]
    \cup [prefix : {"https://res.cloudinary.com/demo/video"}, marker : {"/upload"},
          version : {"/v123"}, segs : {<<"folder", "clip">>}, ext : {"mp4"}]

\* URLs without an "upload" path segment
OtherUrls ==
    [prefix : {"https://example.com"}, marker : {""}, version : {""},
     segs : {<<"video2">>, <<"video3">>, <<"video6">>}, ext : {"mp4"}]
    \cup [prefix : {"https://host"}, marker : {"", "/uploads"}, version : {""},
          segs : {<<"folder", "clip">>}, ext : {"mp4"}]

KnownUrls == ShapedUrls \cup OtherUrls

\* each known URL as a string and as characters
UrlTable ==
    [u \in KnownUrls |-> [url |-> UrlString(UrlWords(u)),
                          chars |-> UrlChars(UrlWords(u))]]

\* the characters of the URLs that occur in the sheet
Chars(url) ==
    IF \E u \in KnownUrls : UrlTable[u].url = url
    THEN UrlTable[CHOOSE u \in KnownUrls : UrlTable[u].url = url].chars
    ELSE <<>>

Digit == {"0", "1", "2", "3", "4", "5", "6", "7", "8", "9"}

\* \w
WordChar ==
    Digit \cup {"_"} \cup
    {"a", "b", "c", "d", "e", "f", "g", "h", "i", "j", "k", "l", "m", "n", "o",
     "p", "q", "r", "s", "t", "u", "v", "w", "x", "y", "z"} \cup
    {"A", "B", "C", "D", "E", "F", "G", "H", "I", "J", "K", "L", "M", "N", "O",
     "P", "Q", "R", "S", "T", "U", "V", "W", "X", "Y", "Z"}

NoMatch == [matched |-> FALSE, id |-> ""]

\* the literal lit occurs in cs at position i
LiteralAt(cs, i, lit) ==
    /\ i + Len(lit) - 1 <= Len(cs)
    /\ \A j \in 1..Len(lit) : cs[i + j - 1] = lit[j]

\* the position after the longest run of characters of class S that starts at i
RECURSIVE RunEnd(_, _, _)
RunEnd(cs, i, S) ==
    IF i <= Len(cs) /\ cs[i] \in S THEN RunEnd(cs, i + 1, S) ELSE i

RECURSIVE JoinChars(_, _, _)
JoinChars(cs, a, b) == IF a > b THEN "" ELSE cs[a] \o JoinChars(cs, a + 1, b)

\* ([^\.\/]+(?:\/[^\.\/]+)*)\.\w+$ at position g: the group runs over segments
\* free of "." and "/" joined by "/", and must be followed by "." and word
\* characters up to the end
GroupAt(cs, g) ==
    LET NotDotSlash == {cs[j] : j \in 1..Len(cs)} \ {".", "/"}
        \* the end of the group: segments while "/" is followed by a segment
        e == CHOOSE x \in g..(Len(cs) + 1) :
                /\ \A j \in g..(x - 1) :
                      \/ cs[j] \in NotDotSlash
                      \/ cs[j] = "/" /\ j > g /\ j < x - 1 /\ cs[j - 1] # "/"
                                     /\ j + 1 <= Len(cs) /\ cs[j + 1] \in NotDotSlash
                /\ \/ x > Len(cs)
                   \/ cs[x] \notin NotDotSlash
                      /\ ~(cs[x] = "/" /\ x > g /\ x + 1 <= Len(cs)
                           /\ cs[x + 1] \in NotDotSlash)
    IN  IF /\ e > g
           /\ e <= Len(cs) /\ cs[e] = "."
           /\ e + 1 <= Len(cs)
           /\ RunEnd(cs, e + 1, WordChar) = Len(cs) + 1
        THEN [matched |-> TRUE, id |-> JoinChars(cs, g, e - 1)]
        ELSE NoMatch

\* MatchFrom without the optional version
MatchFrom_noVersion(cs, i) ==
    IF LiteralAt(cs, i, <<"/", "u", "p", "l", "o", "a", "d", "/">>)
    THEN GroupAt(cs, i + 8) ELSE NoMatch

\* \/upload(?:\/v\d+)?\/ at position i, then the group; the optional version is
\* tried first, the regex falls back to no version when that fails
MatchFrom(cs, i) ==
    IF ~LiteralAt(cs, i, <<"/", "u", "p", "l", "o", "a", "d">>) THEN NoMatch
    ELSE LET a == i + 7
             d == RunEnd(cs, a + 2, Digit)
             withVersion ==
                 IF /\ LiteralAt(cs, a, <<"/", "v">>)
                    /\ d > a + 2
                    /\ LiteralAt(cs, d, <<"/">>)
                 THEN GroupAt(cs, d + 1) ELSE NoMatch
         IN  IF withVersion.matched THEN withVersion
             ELSE IF LiteralAt(cs, a, <<"/">>) THEN GroupAt(cs, a + 1)
             ELSE NoMatch

\* cloudinaryUrl.match(...): the leftmost position where the pattern matches
RECURSIVE SearchFrom(_, _)
SearchFrom(cs, i) ==
    IF i > Len(cs) THEN NoMatch
    ELSE IF MatchFrom(cs, i).matched THEN MatchFrom(cs, i)
         ELSE SearchFrom(cs, i + 1)

\* match ? match[1] : null
extractPublicId(cloudinaryUrl) == SearchFrom(Chars(cloudinaryUrl), 1)

Reapable(row) ==
    LET cloudinaryUrl == row[2]
        publishedAt   == row[8]
    IN  Truthy(publishedAt) /\ Truthy(cloudinaryUrl)

\* for (...) if (publishedAt && cloudinaryUrl) publishedRows.push({rowIndex: i + 2, data})
RECURSIVE ReapScan(_, _)
ReapScan(rows, i) ==
    IF i >= Len(rows) THEN <<>>
    ELSE IF Reapable(rows[i + 1])
         THEN <<[rowIndex |-> i + 2, data |-> rows[i + 1]]>> \o ReapScan(rows, i + 1)
         ELSE ReapScan(rows, i + 1)

getPublishedRows(sh) == ReapScan(ReadRange(sh, "K"), 0)

\* cloudinary.v2.uploader.destroy(publicId): {result}, or a rejection
DestroyReplies == {"ok", "not found", "error", "throw"}

\* ReapOutcome that takes only "ok" for a deletion
ReapOutcome_onlyOk(reply) ==
    IF reply = "ok" THEN "deleted" ELSE "error"

\* the row's entry of `results` and whether deletedCount is incremented
ReapOutcome(reply) ==
    IF reply \in {"ok", "not found"} THEN "deleted" ELSE "error"

\* the message of the Error the per-row catch receives
Reap_errorText(reply) ==
    IF reply = "throw" THEN "Request Timeout" ELSE "Delete failed: " \o reply

\* results.push({rowIndex, title, publicId, cloudinaryUrl, status, ...})
Reap_entry(cur, publicId, reply) ==
    [rowIndex |-> cur.rowIndex, cloudinaryUrl |-> cur.data[2],
     publicId |-> publicId.id,
     status |-> IF ~publicId.matched THEN "skipped" ELSE ReapOutcome(reply),
     deleteResult |-> IF publicId.matched /\ ReapOutcome(reply) = "deleted"
                      THEN reply ELSE "",
     error |-> IF publicId.matched /\ ReapOutcome(reply) = "error"
               THEN Reap_errorText(reply) ELSE ""]

\* GET up to the first await of the loop
ReapSelect(p, limit) ==
    /\ CanStart(p, limit)
    /\ started' = started + 1
    /\ LET publishedRows == getPublishedRows(sheet) IN
       IF Len(publishedRows) = 0
       THEN inv' = RespondAtOnce(p, "reap", [NoResp EXCEPT !.status = 200,
                                               !.success = TRUE])
       ELSE inv' = [inv EXCEPT ![p] = [Idle EXCEPT !.kind = "reap", !.pc = "loop",
                                                   !.batch = publishedRows]]
    /\ UNCHANGED <<sheet, created, staged, published, committed, destroyed, errLog, probe>>

\* Reap_sheetAfterRow that clears the media URL (column C) of a deleted row
Reap_sheetAfterRow_clearsUrl(sh, rowIndex, status) ==
    IF status = "deleted" THEN WriteCell(sh, "C", rowIndex, "") ELSE sh

\* the sheet after the iteration for a row: the update of column C is commented
\* out, no branch of the loop writes
Reap_sheetAfterRow(sh, rowIndex, status) == sh

\* one iteration of `for (const {rowIndex, data} of publishedRows)`; after the
\* last one the report is returned
ReapRow(p) ==
    /\ inv[p].kind = "reap" /\ inv[p].pc = "loop"
    /\ LET n == Len(inv[p].results) + 1
           cur == inv[p].batch[n]
           publicId == extractPublicId(cur.data[2])
           Finish(entry, deleted) ==
               LET results == Append(inv[p].results, entry)
                   count == inv[p].deletedCount + deleted
               IN  IF n < Len(inv[p].batch)
                   THEN [inv EXCEPT ![p].results = results, ![p].deletedCount = count]
                   ELSE [inv EXCEPT ![p] =
                           [Idle EXCEPT !.kind = "reap", !.pc = "done",
                                        !.resp = [NoResp EXCEPT !.status = 200,
                                                     !.success = TRUE,
                                                     !.totalRowsProcessed =
                                                         Len(inv[p].batch),
                                                     !.deletedCount = count,
                                                     !.results = results]]]
       IN  IF ~publicId.matched
           THEN /\ inv' = Finish(Reap_entry(cur, publicId, ""), 0)
                /\ sheet' = Reap_sheetAfterRow(sheet, cur.rowIndex, "skipped")
                /\ UNCHANGED destroyed
           ELSE /\ destroyed' = [destroyed EXCEPT ![cur.rowIndex - 1] = @ + 1]
                /\ \E reply \in DestroyReplies :
                     /\ inv' = Finish(Reap_entry(cur, publicId, reply),
                                      IF ReapOutcome(reply) = "deleted" THEN 1 ELSE 0)
                     /\ sheet' = Reap_sheetAfterRow(sheet, cur.rowIndex,
                                                    ReapOutcome(reply))
    /\ UNCHANGED <<created, staged, published, committed, errLog, started, probe>>

----------------------------------------------------------------------------
(* The sheet before the first invocation *)

\* rows as a person prepares them: the pipeline's own cells are still empty
RowOf(cells) == [c \in Cols |-> IF c + 1 <= Len(cells) THEN cells[c + 1] ELSE ""]

SeedRows ==
    { \* 11-column layout, media ready, caption to be generated
      RowOf(<<NowISO, "https://www.youtube.com/shorts/dQw4w9WgXcQ", MediaUrl,
              "Morning run", "", "https://i.ytimg.com/vi/dQw4w9WgXcQ/hq.jpg">>),
      \* 11-column layout, caption supplied
      RowOf(<<NowISO, "https://www.youtube.com/shorts/dQw4w9WgXcQ", MediaUrl,
              "Morning run", "a run at dawn", "", "", "Check this out!">>),
      \* the guide's 6-column layout: Name, Caption, Link
      RowOf(<<"Video 3", "New reel", "https://example.com/video3.mp4">>),
      \* the guide's layout, caption missing
      RowOf(<<"Video 6", "", "https://example.com/video6.mp4">>),
      \* the layout publish/route.ts reads: Name, Caption, Link, Transcript,
      \* Published At, Creation ID
      RowOf(<<"Video 2", "Amazing content", "https://example.com/video2.mp4",
              "spoken words", "", "777">>) }

RECURSIVE SeqsUpTo(_, _)
SeqsUpTo(S, n) ==
    IF n = 0 THEN {<<>>}
    ELSE LET shorter == SeqsUpTo(S, n - 1)
         IN  shorter \cup {Append(q, x) : q \in shorter, x \in S}

InitSlots ==
    /\ inv = [p \in Slots |-> Idle]
    /\ created = [k \in 1..Len(sheet) |-> 0]
    /\ staged = [k \in 1..Len(sheet) |-> FALSE]
    /\ published = [k \in 1..Len(sheet) |-> 0]
    /\ committed = [k \in 1..Len(sheet) |-> FALSE]
    /\ destroyed = [k \in 1..Len(sheet) |-> 0]
    /\ errLog = {}
    /\ started = 0
    /\ probe = NoProbe

Init ==
    /\ sheet \in SeqsUpTo(SeedRows, MaxRows)
    /\ InitSlots

Step(p, limit) ==
    \/ StageSelect(p, limit) \/ StageCaption(p) \/ StageWriteCaption(p)
    \/ StageCreate(p) \/ StageWriteCid(p) \/ StageErrRead(p) \/ StageErrWrite(p)
    \/ UploadSelect(p, limit) \/ UploadCreate(p) \/ UploadWriteCid(p) \/ UploadErrWrite(p)
    \/ CommitSelect(p, limit) \/ CommitPublish(p) \/ CommitWritePub(p) \/ CommitErrWrite(p)
    \/ IngestReceive(p, limit) \/ IngestAppend(p) \/ IngestTrigger(p)
    \/ ReapSelect(p, limit) \/ ReapRow(p)

\* invocations may overlap
Next ==
    \/ \E p \in Slots : Step(p, MaxOverlapping)
    \/ \E k \in 1..MaxRows : FillMedia(k)

Spec == Init /\ [][Next]_vars

\* invocations run one at a time: each completes before the next starts
NextSeq ==
    \/ Step(FirstSlot, MaxInvocations)
    \/ \E k \in 1..MaxRows : FillMedia(k)

SpecSeq == Init /\ [][NextSeq]_vars

----------------------------------------------------------------------------
(* One request, or one direct call of a row updater, on any sheet.  The sheet  *)
(* is drawn in one of the three layouts the code reads, every cell a selector  *)
(* tests being empty or filled independently of the others.                    *)

Cell(filled, value) == IF filled THEN value ELSE ""

\* unnamed/part_001 and part_002: C media, I publishedAt, J creationId, K error;
\* the media is hosted by Cloudinary or elsewhere
CanonRows ==
    { RowOf(<<NowISO, "https://www.youtube.com/shorts/dQw4w9WgXcQ",
              c, "Morning run", "", "", "", "",
              Cell(i, "2025-10-20T09:00:00.000Z"), Cell(j, "17800"),
              Cell(k, "E1")>>) :
        c \in {"", MediaUrl, "https://example.com/video2.mp4"}, i, j, k \in BOOLEAN }

\* upload/route.ts and the guide: D publishedAt, E creationId, F error
SixColRows ==
    { RowOf(<<"Video 1", "Check this out!", "https://example.com/video2.mp4",
              Cell(d, "2025-10-23T10:30:00Z"), Cell(e, "123456789"),
              Cell(f, "E1")>>) : d, e, f \in BOOLEAN }

\* publish/route.ts: E publishedAt, F creationId, G error
SevenColRows ==
    { RowOf(<<"Video 1", "Check this out!", "https://example.com/video2.mp4",
              "", Cell(e, "2025-10-23T10:30:00Z"), Cell(f, "777"),
              Cell(g, "E1")>>) : e, f, g \in BOOLEAN }

InitUnit ==
    /\ \E layout \in {CanonRows, SixColRows, SevenColRows} :
         sheet \in SeqsUpTo(layout \cup {BlankRow}, MaxRows)
    /\ InitSlots

\* the error messages the handlers pass to their updaters
StageErrors == {Stage_errorMsg("Missing video title"),
                Stage_errorMsg(Stage_apiErrorText(CHOOSE r \in CreateReplies :
                                                    r.kind = "error"))}
UploadErrors == {"UPLOAD: Missing video link or caption in sheet"}
CommitErrors == {Commit_apiErrorMsg(CHOOSE r \in PublishReplies : r.kind = "error")}

CanProbe == probe = NoProbe /\ started = 0

\* updateSheetRow(sheets, sheetName, rowIndex, { error }) of part_001
CallStageUpdate ==
    /\ CanProbe
    /\ \E k \in 1..Len(sheet), m \in StageErrors :
         /\ sheet' = Stage_updateSheetRow(sheet, k + 1, [error |-> m])
         /\ probe' = [fn |-> "Stage_updateSheetRow", rowIndex |-> k + 1,
                      error |-> m, before |-> sheet[k][10]]
    /\ UNCHANGED <<inv, created, staged, published, committed, destroyed, errLog, started>>

\* updateSheetRow(sheets, rowIndex, { error }) of upload/route.ts
CallUploadUpdate ==
    /\ CanProbe
    /\ \E k \in 1..Len(sheet), m \in UploadErrors :
         /\ sheet' = Upload_updateSheetRow(sheet, k + 1, [error |-> m])
         /\ probe' = [fn |-> "Upload_updateSheetRow", rowIndex |-> k + 1,
                      error |-> m, before |-> sheet[k][5]]
    /\ UNCHANGED <<inv, created, staged, published, committed, destroyed, errLog, started>>

\* updateSheetRow(sheets, rowIndex, { error }) of publish/route.ts
CallCommitUpdate ==
    /\ CanProbe
    /\ \E k \in 1..Len(sheet), m \in CommitErrors :
         /\ sheet' = Commit_updateSheetRow(sheet, k + 1, [error |-> m])
         /\ probe' = [fn |-> "Commit_updateSheetRow", rowIndex |-> k + 1,
                      error |-> m, before |-> sheet[k][6]]
    /\ UNCHANGED <<inv, created, staged, published, committed, destroyed, errLog, started>>

NextUnit ==
    \/ Step(FirstSlot, 1)
    \/ CallStageUpdate
    \/ CallUploadUpdate
    \/ CallCommitUpdate

SpecUnit == InitUnit /\ [][NextUnit]_vars

----------------------------------------------------------------------------
(* One Reap request on a sheet of published rows whose media URL is any of the *)
(* known URLs                                                                  *)

ReapRows ==
    { RowOf(<<NowISO, "https://www.youtube.com/shorts/dQw4w9WgXcQ",
              UrlTable[u].url, "Morning run", "", "", "", "Great clip! #fun",
              "2025-10-20T09:00:00.000Z", "17800">>) :
        u \in {k \in KnownUrls : k.prefix # "https://example.com" \/ k.segs = <<"video2">>} }

InitReap ==
    /\ sheet \in SeqsUpTo(ReapRows, MaxRows)
    /\ InitSlots

NextReap ==
    \/ ReapSelect(FirstSlot, 1)
    \/ ReapRow(FirstSlot)

SpecReap == InitReap /\ [][NextReap]_vars

----------------------------------------------------------------------------
(* Two Reap requests on one sheet; the second arrives before the first has     *)
(* responded, so that both reports can be compared                             *)

RepeatRows ==
    { RowOf(<<NowISO, "https://www.youtube.com/shorts/dQw4w9WgXcQ",
              url, "Morning run", "", "", "", "Great clip! #fun",
              publishedAt, "17800">>) :
        url \in {MediaUrl, "https://host/uploads/folder/clip.mp4"},
        publishedAt \in {"", "2025-10-20T09:00:00.000Z"} }

InitRepeat ==
    /\ sheet \in SeqsUpTo(RepeatRows, MaxRows)
    /\ InitSlots

NextRepeat == \E p \in Slots : ReapSelect(p, 2) \/ ReapRow(p)

SpecRepeat == InitRepeat /\ [][NextRepeat]_vars

----------------------------------------------------------------------------
(* Canonical Stage and Commit alone, one invocation at a time *)

NextPipeline ==
    \/ StageSelect(FirstSlot, MaxInvocations) \/ StageCaption(FirstSlot)
    \/ StageWriteCaption(FirstSlot) \/ StageCreate(FirstSlot)
    \/ StageWriteCid(FirstSlot) \/ StageErrRead(FirstSlot) \/ StageErrWrite(FirstSlot)
    \/ CommitSelect(FirstSlot, MaxInvocations) \/ CommitPublish(FirstSlot)
    \/ CommitWritePub(FirstSlot) \/ CommitErrWrite(FirstSlot)

SpecPipeline == Init /\ [][NextPipeline]_vars

----------------------------------------------------------------------------
(* The webhook alone: verifications and notifications, overlapping *)

NextIngest ==
    \E p \in Slots :
        \/ IngestVerify(p, MaxOverlapping)
        \/ IngestReceive(p, MaxOverlapping) \/ IngestAppend(p) \/ IngestTrigger(p)

SpecIngest == Init /\ [][NextIngest]_vars

----------------------------------------------------------------------------
(* Properties *)

\* this step is the start of a request of the given kind, served by slot p
Starts(p, kind) ==
    /\ started' = started + 1
    /\ p = (IF Free(FirstSlot) THEN FirstSlot ELSE CHOOSE q \in Slots : q # FirstSlot)
    /\ inv'[p].kind = kind

\* the smallest member of a non-empty set of row positions
FirstOf(S) == CHOOSE k \in S : \A j \in S : k <= j

\* the rows (positions in the sheet) that the specification calls stage-ready,
\* in the 11-column layout: C filled; I, J and K empty
StageReadyRows(sh) ==
    {k \in 1..Len(sh) : sh[k][2] # "" /\ sh[k][8] = "" /\ sh[k][9] = ""
                        /\ sh[k][10] = ""}

\* the rows that are commit-ready in the columns Commit reads: F filled; E and
\* G empty
CommitReadyRows(sh) ==
    {k \in 1..Len(sh) : sh[k][5] # "" /\ sh[k][4] = "" /\ sh[k][6] = ""}

\* the request that starts in this step got from its selector the first row of
\* S, numbered as a sheet row and with the cells up to column lastCol; or null,
\* answered with 404, when S is empty
SelectsFirstOf(p, S, lastCol) ==
    IF S = {}
    THEN /\ inv'[p].rowIndex = 0
         /\ inv'[p].pc = "done"
         /\ inv'[p].resp.status = 404
    ELSE /\ inv'[p].rowIndex = FirstOf(S) + 1
         /\ \A c \in 0..lastCol : inv'[p].data[c] = sheet[FirstOf(S)][c]

\* C1: on every sheet the Stage selector returns the first row, top to bottom,
\* whose column C is filled and whose columns I, J and K are empty, with
\* rowIndex = position + 2 (position counted from 0), and null exactly when
\* there is no such row.
C1_StageSelectsFirstReadyRow ==
    [][\A p \in Slots :
         Starts(p, "stage") => SelectsFirstOf(p, StageReadyRows(sheet), 10)]_vars

\* Stage chose sheet row 3 although the row above carries media: that row is
\* held back by its error cell
C1_Witness ==
    /\ Len(sheet) = 2
    /\ inv[FirstSlot].kind = "stage" /\ inv[FirstSlot].pc = "caption"
    /\ inv[FirstSlot].rowIndex = 3
    /\ sheet[1][2] # "" /\ sheet[1][10] # ""
    /\ 2 \in StageReadyRows(sheet)

C10_UpdaterErrorSemantics ==
    probe # NoProbe =>
        LET row == sheet[probe.rowIndex - 1] IN
        /\ probe.fn = "Stage_updateSheetRow" =>
              row[10] = IF probe.before = "" THEN probe.error
                        ELSE probe.before \o "\n" \o probe.error
        /\ probe.fn = "Upload_updateSheetRow" => row[5] = probe.error
        /\ probe.fn = "Commit_updateSheetRow" => row[6] = probe.error

\* the canonical updater was given a message for a row that already held one
C10_Witness ==
    /\ probe.fn = "Stage_updateSheetRow"
    /\ probe.before = "E1"
    /\ sheet[probe.rowIndex - 1][10] = "E1\n" \o probe.error
    /\ probe.error # ""

C7_IdsAndDatesAreNeverCleared ==
    [][\A k \in 1..Len(sheet) : \A c \in {3, 4, 5, 8, 9} :
          sheet[k][c] # "" => sheet'[k][c] # ""]_vars

\* one row has been staged and published, and both cells are in place
C7_Witness ==
    \E k \in 1..Len(sheet) :
        /\ created[k] > 0 /\ sheet[k][9] = ContainerId(0)
        /\ committed[k] /\ sheet[k][4] = NowISO

\* C8: the selectors take no account of requests in flight: while a Stage
\* (Commit) request holds the first ready row, between its read of the sheet
\* and its write to it, a Stage (Commit) request that starts is given the same
\* row, so that the two requests call createContainer (publishContainer) once
\* each for that one row.
C8_OverlappingRequestsSelectTheSameRow ==
    [][\A p, q \in Slots :
         /\ ( /\ Starts(p, "stage") /\ q # p
              /\ inv[q].kind = "stage"
              /\ inv[q].pc \in {"caption", "writeCaption", "create", "writeCid"}
              /\ StageReadyRows(sheet) # {}
              /\ FirstOf(StageReadyRows(sheet)) = inv[q].rowIndex - 1 )
            => inv'[p].rowIndex = inv[q].rowIndex
         /\ ( /\ Starts(p, "commit") /\ q # p
              /\ inv[q].kind = "commit"
              /\ inv[q].pc \in {"publish", "writePub"}
              /\ CommitReadyRows(sheet) # {}
              /\ FirstOf(CommitReadyRows(sheet)) = inv[q].rowIndex - 1 )
            => inv'[p].rowIndex = inv[q].rowIndex]_vars

\* two Stage requests overlap on one row: each has its own container id, and
\* neither has written yet
C8_Witness ==
    \E k \in 1..Len(sheet) :
        /\ \A p \in Slots : /\ inv[p].kind = "stage" /\ inv[p].pc = "writeCid"
                            /\ inv[p].rowIndex = k + 1
        /\ inv["a"].id # inv["b"].id
        /\ created[k] = 2
        /\ sheet[k][9] = ""

\* the same for Commit: two requests have had one row published twice
C8_CommitRaceReached ==
    \E k \in 1..Len(sheet) :
        /\ \A p \in Slots : /\ inv[p].kind = "commit" /\ inv[p].pc = "writePub"
                            /\ inv[p].rowIndex = k + 1
        /\ published[k] = 2
        /\ sheet[k][4] = ""

\* C4: Stage and Commit agree on the columns: when a Stage request (canonical,
\* or the simple Upload) has succeeded on a row, the row is commit-ready as
\* Commit's selector reads it, and the cell Commit reads as creationId holds
\* the id that Stage stored.
C4_StagedRowIsCommitReady ==
    \A p \in Slots :
        ( /\ inv[p].kind \in {"stage", "upload"}
          /\ inv[p].pc = "done" /\ inv[p].resp.success )
        => LET row == ClipRow(sheet[inv[p].rowIndex - 1], "G")
           IN  CommitReady(row) /\ row[5] = inv[p].resp.creationId

\* C5: the row that Ingest-notify appends has its mediaUrl (C), caption (H),
\* publishedAt (I), creationId (J) and error (K) cells empty, so that filling
\* C is all it takes to make the row stage-ready.
C5_IngestedRowHasEmptyDownstreamFields ==
    [][\A p \in Slots :
         (inv[p].kind = "ingest" /\ inv[p].pc = "append" /\ inv'[p].pc = "trigger")
         => LET row == sheet'[Len(sheet')]
            IN  /\ \A c \in {2, 7, 8, 9, 10} : row[c] = ""
                /\ StageReady([row EXCEPT ![2] = MediaUrl])]_vars

\* C6: published is terminal: when requests do not overlap, a row that Commit
\* has published and stamped with publishedAt is not selected by any later
\* Stage, Upload or Commit request.
C6_PublishedRowIsNeverSelected ==
    [][\A p \in Slots : \A kind \in {"stage", "upload", "commit"} :
         (Starts(p, kind) /\ inv'[p].rowIndex # 0)
         => LET k == inv'[p].rowIndex - 1
            IN  ~(committed[k] /\ sheet[k][4] # "")]_vars

\* the messages canonical Stage records
StageMessages ==
    {Stage_errorMsg("Missing Cloudinary URL"), Stage_errorMsg("Missing video title")}
    \cup {Stage_errorMsg("Failed to generate caption - " \o r.text) :
            r \in {c \in CaptionReplies : ~c.ok}}
    \cup {Stage_errorMsg(Stage_apiErrorText(r)) :
            r \in {c \in CreateReplies : c.kind = "error"}}

RECURSIVE JoinLines(_)
JoinLines(ms) ==
    IF Len(ms) = 1 THEN ms[1] ELSE ms[1] \o "\n" \o JoinLines(Tail(ms))

\* the cell is made of recorded messages, one per line, and m is one of them
HasLine(cell, m) ==
    \E ms \in SeqsUpTo(StageMessages, MaxOverlapping) :
        /\ ms # <<>>
        /\ JoinLines(ms) = cell
        /\ \E i \in 1..Len(ms) : ms[i] = m

\* C9: in the canonical layout the error cell is append-only under every
\* interleaving: every message a Stage request has recorded on a row is still
\* in that row's error cell.
C9_NoRecordedErrorIsLost ==
    \A e \in errLog : HasLine(sheet[e[1]][10], e[2])

\* C11: in Stage, when the selected row has no caption and captioning succeeds,
\* the generated caption is in the row's caption cell (H) before createContainer
\* is called, the call carries that caption, and a success reports
\* captionGenerated = true; when the row has a caption, captioning is not
\* called, H is not written, the call carries the row's caption and a success
\* reports captionGenerated = false.
C11_CaptionIsWrittenBeforeTheCall ==
    [][\A p \in Slots :
         LET k == inv[p].rowIndex - 1
             had == inv[p].data[7]
         IN
         \* the request starts: captioning is the next call only without a caption
         /\ (Starts(p, "stage") /\ inv'[p].pc \in {"caption", "create"}) =>
               (inv'[p].pc = "caption") = (inv'[p].data[7] = "")
         \* the createContainer call is issued
         /\ (inv[p].kind = "stage" /\ inv[p].pc = "create"
             /\ created' # created) =>
               /\ Stage_params(inv[p].caption, inv[p].data).caption = sheet[k][7]
               /\ sheet[k][7] # ""
               /\ inv[p].captionGenerated = (had = "")
               /\ had # "" => sheet[k][7] = had
         \* the success is reported
         /\ (inv[p].kind = "stage" /\ inv[p].pc = "writeCid"
             /\ inv'[p].pc = "done") =>
               /\ inv'[p].resp.success
               /\ inv'[p].resp.captionGenerated = (had = "")
               /\ sheet'[k][7] = sheet[k][7]]_vars

\* a caption was generated and stored, then the container was created
C11_Witness ==
    /\ inv[FirstSlot].kind = "stage" /\ inv[FirstSlot].pc = "writeCid"
    /\ inv[FirstSlot].data[7] = "" /\ inv[FirstSlot].captionGenerated
    /\ sheet[inv[FirstSlot].rowIndex - 1][7] = "Great clip! #fun"
    /\ created[inv[FirstSlot].rowIndex - 1] = 1

\* C12: whenever a Stage request reports success for a row, the row's
\* creationId cell (J) holds the id that createContainer returned, which is not
\* empty and is the one echoed in the response; the row's error cell is
\* unchanged; and the row is no longer stage-ready.
C12_SuccessStoresTheReturnedId ==
    [][\A p \in Slots :
         (inv[p].kind = "stage" /\ inv[p].pc = "writeCid" /\ inv'[p].pc = "done") =>
            LET k == inv[p].rowIndex - 1 IN
            /\ inv'[p].resp.success /\ inv'[p].resp.row = k + 1
            /\ inv[p].id # ""
            /\ sheet'[k][9] = inv[p].id
            /\ inv'[p].resp.creationId = inv[p].id
            /\ sheet'[k][10] = sheet[k][10]
            /\ k \notin StageReadyRows(sheet')]_vars

\* Stage has reported success for a row that was stage-ready: the id of the
\* response is in J
C12_Witness ==
    /\ inv[FirstSlot].kind = "stage" /\ inv[FirstSlot].pc = "done"
    /\ inv[FirstSlot].resp.success
    /\ inv[FirstSlot].resp.creationId = ContainerId(0)
    /\ sheet[inv[FirstSlot].resp.row - 1][9] = ContainerId(0)
    /\ sheet[inv[FirstSlot].resp.row - 1][2] # ""
    /\ sheet[inv[FirstSlot].resp.row - 1][10] = ""

C15_EveryFailureIsRecorded ==
    \A p \in Slots :
        ( /\ inv[p].kind \in {"stage", "commit"} /\ inv[p].pc = "done"
          /\ inv[p].rowIndex # 0 /\ ~inv[p].resp.success )
        => sheet[inv[p].rowIndex - 1][IF inv[p].kind = "stage" THEN 10 ELSE 6] # ""

\* the rows (positions in the sheet) that Reap is to clean up: media URL and
\* publishedAt both filled
ReapableRows == {k \in 1..Len(sheet) : sheet[k][2] # "" /\ sheet[k][8] # ""}

\* the delete call of this result entry returned "ok" or "not found"
ReturnedOkOrNotFound(e) ==
    \/ e.deleteResult \in {"ok", "not found"}
    \/ e.error \in {"Delete failed: ok", "Delete failed: not found"}

\* C16: the report of a Reap batch has one entry for every reapable row, in
\* sheet order, its length is totalRowsProcessed, deletedCount is the number of
\* rows whose delete returned "ok" or "not found", a row with another result or
\* an exception has status "error", and a failure does not stop the later rows
C16_ReapReportsEveryRow ==
    \A p \in Slots :
        ( inv[p].kind = "reap" /\ inv[p].pc = "done" /\ ReapableRows # {} ) =>
            LET r == inv[p].resp
                res == r.results
            IN  /\ r.totalRowsProcessed = Cardinality(ReapableRows)
                /\ Len(res) = r.totalRowsProcessed
                /\ {res[n].rowIndex : n \in 1..Len(res)} = {k + 1 : k \in ReapableRows}
                /\ \A n, m \in 1..Len(res) : n < m => res[n].rowIndex < res[m].rowIndex
                /\ r.deletedCount =
                       Cardinality({n \in 1..Len(res) : ReturnedOkOrNotFound(res[n])})
                /\ \A n \in 1..Len(res) :
                       res[n].status =
                           IF res[n].publicId = "" THEN "skipped"
                           ELSE IF ReturnedOkOrNotFound(res[n]) THEN "deleted"
                           ELSE "error"

\* a batch whose first row failed and whose second row was deleted as "not found"
C16_Witness ==
    \E p \in Slots :
        /\ inv[p].kind = "reap" /\ inv[p].pc = "done"
        /\ Len(inv[p].resp.results) = 2
        /\ inv[p].resp.results[1].status = "error"
        /\ inv[p].resp.results[2].deleteResult = "not found"
        /\ inv[p].resp.deletedCount = 1

\* C17: no step of a Reap invocation, whatever the outcome of the row it
\* handles, changes a cell of the sheet
C17_ReapLeavesTheSheetIntact ==
    [][ \A p \in Slots :
            (inv'[p].kind = "reap" /\ inv'[p] # inv[p]) => sheet' = sheet ]_vars

\* a Reap invocation has reported a deleted row, a skipped row or a failed row
C17_Witness ==
    \E p \in Slots :
        /\ inv[p].kind = "reap" /\ inv[p].pc = "done"
        /\ Len(inv[p].resp.results) = 2
        /\ inv[p].resp.results[1].status = "deleted"
        /\ inv[p].resp.results[2].status \in {"skipped", "error"}
        /\ \A n \in 1..2 : sheet[inv[p].resp.results[n].rowIndex - 1][2] =
                              inv[p].resp.results[n].cloudinaryUrl

\* seg1/.../segN
RECURSIVE JoinSegments(_)
JoinSegments(segs) ==
    IF Len(segs) = 1 THEN Head(segs)
    ELSE Head(segs) \o "/" \o JoinSegments(Tail(segs))

\* The reading of a URL in the shape <prefix>/upload[/v<digits>]/<seg1>/.../<segN>.<ext>:
\* a segment v<digits> that follows "upload" and is followed by further segments
\* is the version
Reading(u) ==
    IF u.version = "" /\ Len(u.segs) > 1 /\ Head(u.segs) \in {"v2"}
    THEN [u EXCEPT !.version = "/" \o Head(u.segs), !.segs = Tail(u.segs)]
    ELSE u

C19_SubscribeIsAlwaysEchoed ==
    \A p \in Slots :
        (inv[p].kind = "verify" /\ inv[p].pc = "done") =>
            IF inv[p].req.mode = Param("subscribe")
            THEN inv[p].resp.status = 200
                 /\ inv[p].resp.body = inv[p].req.challenge.value
            ELSE inv[p].resp.status = 400

\* C19: a verification whose mode is "subscribe" and that supplies a non-empty
\* challenge is answered 200 with exactly the challenge as body; every other
\* verification (another mode, no mode, a missing or empty challenge) is
\* answered 400; the answer is given at once and the sheet is left as it was
C19_ChallengeIsEchoedOnSubscribe ==
    [][ \A p \in Slots :
            Starts(p, "verify") =>
                LET q == inv'[p].req
                    r == inv'[p].resp
                IN  /\ inv'[p].pc = "done"
                    /\ sheet' = sheet
                    /\ IF /\ q.mode = Param("subscribe")
                          /\ q.challenge.present /\ q.challenge.value # ""
                       THEN r.status = 200 /\ r.body = q.challenge.value
                       ELSE r.status = 400 ]_vars

\* the handshake of the example has been answered
C19_Witness ==
    \E p \in Slots :
        /\ inv[p].kind = "verify" /\ inv[p].pc = "done"
        /\ inv[p].req.mode = Param("subscribe")
        /\ inv[p].req.challenge = Param("abc123")
        /\ inv[p].resp.status = 200 /\ inv[p].resp.body = "abc123"

\* the short-form filter rejects the notification: neither its title nor its
\* description carries the marker "shorts" and its identifier is not 11 long
RejectedByFilter(x) ==
    /\ x.title # "Daily #Shorts" /\ x.description # "Daily #Shorts"
    /\ Len(x.videoId) # 11

\* C20: a notification without a video identifier is answered 400 and one the
\* filter rejects is answered {skipped: true}; neither appends a row nor fires
\* the trigger; any other notification appends exactly one row, then fires the
\* trigger
C20_NotifyShortCircuits ==
    [][ \A p \in Slots :
            /\ Starts(p, "ingest") =>
                 LET x == inv'[p].req.xml IN
                 /\ sheet' = sheet /\ ~inv'[p].triggered
                 /\ IF x.videoId = ""
                    THEN inv'[p].pc = "done" /\ inv'[p].resp.status = 400
                    ELSE IF RejectedByFilter(x)
                    THEN inv'[p].pc = "done" /\ inv'[p].resp.skipped
                         /\ inv'[p].resp.status = 200
                    ELSE inv'[p].pc = "append"
            /\ ( /\ inv[p].kind = "ingest" /\ inv[p].pc = "done"
                 /\ inv[p].resp.status = 400 \/ inv[p].resp.skipped ) =>
                 /\ ~inv[p].triggered
                 /\ inv'[p] = inv[p] \/ Starts(p, inv'[p].kind)
            /\ (inv[p].kind = "ingest" /\ inv[p].pc = "append" /\ inv'[p] # inv[p]) =>
                 /\ Len(sheet') = Len(sheet) + 1
                 /\ \A k \in 1..Len(sheet) : sheet'[k] = sheet[k]
                 /\ sheet'[Len(sheet')][1] =
                        "https://www.youtube.com/shorts/" \o inv[p].req.xml.videoId
                 /\ inv'[p].pc = "trigger"
            /\ (inv[p].kind = "ingest" /\ inv[p].pc = "trigger" /\ inv'[p] # inv[p]) =>
                 /\ sheet' = sheet
                 /\ inv'[p].pc = "done" /\ inv'[p].triggered ]_vars

\* one notification has been refused for want of an identifier or skipped by
\* the filter while another one has appended its row and fired the trigger
C20_Witness ==
    \E p, q \in Slots :
        /\ inv[p].kind = "ingest" /\ inv[p].pc = "done"
        /\ inv[p].resp.status = 400 \/ inv[p].resp.skipped
        /\ inv[q].kind = "ingest" /\ inv[q].pc = "done" /\ inv[q].triggered
        /\ inv[q].resp.row = Len(sheet) + 1

\* C21: in the guide's 6-column layout (D publishedAt, E creationId, F error)
\* Upload never selects a row that already holds a creation id, so no second
\* media container is created for such a row
C21_UploadSkipsStagedRows ==
    [][ \A p \in Slots :
            (Starts(p, "upload") /\ inv'[p].rowIndex # 0) =>
                sheet[inv'[p].rowIndex - 1][4] = "" ]_vars

\* C22: a Stage invocation whose row has no title ends with 400, one whose
\* captioning fails ends with 500; in both the error is on the row, no
\* createContainer call was made for it and its creation id is empty; a call is
\* made only for a row with a title and a caption
C22_NoCallBeforeValidationAndCaption ==
    \A p \in Slots :
        (inv[p].kind = "stage" /\ inv[p].pc = "done" /\ inv[p].rowIndex # 0) =>
            LET r == inv[p].resp
                k == inv[p].rowIndex - 1
                Refused ==
                    /\ created[k] = 0
                    /\ sheet[k][9] = ""
                    /\ ~r.success
            IN  /\ sheet[k][3] = "" =>
                    /\ Refused /\ r.status = 400
                    /\ sheet[k][10] = Stage_errorMsg("Missing video title")
                /\ r.error = "Failed to generate caption" =>
                    /\ Refused /\ r.status = 500
                    /\ sheet[k][10] = Stage_errorMsg(
                           "Failed to generate caption - Failed to generate caption from AI")
                /\ created[k] > 0 => sheet[k][3] # "" /\ sheet[k][7] # ""

\* one invocation was refused for a missing title, or for a failed captioning
C22_Witness ==
    \E p \in Slots :
        /\ inv[p].kind = "stage" /\ inv[p].pc = "done" /\ inv[p].rowIndex # 0
        /\ \/ inv[p].resp.status = 400 /\ sheet[inv[p].rowIndex - 1][3] = ""
           \/ inv[p].resp.status = 500
              /\ inv[p].resp.error = "Failed to generate caption"
        /\ sheet[inv[p].rowIndex - 1][10] # ""

\* how far an invocation has got
Rank(pc) ==
    CASE pc \in {"idle"} -> 0
      [] pc \in {"caption"} -> 1
      [] pc \in {"writeCaption"} -> 2
      [] pc \in {"create", "publish"} -> 3
      [] pc \in {"writeCid", "writePub", "errRead"} -> 4
      [] pc \in {"errWrite"} -> 5
      [] OTHER -> 6

\* the columns a step of Stage or Commit may write, given where the invocation is
WritableColumns(kind, pc) ==
    CASE kind = "stage" /\ pc = "writeCaption" -> {7}
      [] kind = "stage" /\ pc = "writeCid" -> {9}
      [] kind = "stage" /\ pc = "errWrite" -> {10}
      [] kind = "commit" /\ pc = "writePub" -> {4}
      [] kind = "commit" /\ pc = "errWrite" -> {6}
      [] OTHER -> {}

C24_OnlyPublishedAssetsAreDeleted ==
    \A k \in 1..Len(sheet) : destroyed[k] > 0 => committed[k]

\* C25: when Stage and Commit invocations run one at a time, createContainer
\* answers ok for a row only if it has not answered ok for that row before,
\* and so does publishContainer
C25_NoDuplicateSideEffects ==
    [][ \A p \in Slots :
            LET k == inv[p].rowIndex - 1 IN
            /\ ( /\ inv[p].kind = "stage" /\ inv[p].pc = "create"
                 /\ inv'[p].pc = "writeCid" ) => ~staged[k] /\ staged'[k]
            /\ ( /\ inv[p].kind = "commit" /\ inv[p].pc = "publish"
                 /\ inv'[p].pc = "writePub" ) => ~committed[k] /\ committed'[k] ]_vars

\* a row has been staged, or published, and a later invocation of the same
\* handler has run to its end
C25_Witness ==
    \E k \in 1..Len(sheet) : \E p \in Slots :
        /\ started >= 2 /\ inv[p].pc = "done" /\ inv[p].rowIndex # k + 1
        /\ \/ staged[k] /\ sheet[k][9] # "" /\ inv[p].kind = "stage"
           \/ committed[k] /\ sheet[k][4] # "" /\ inv[p].kind = "commit"

\* C26: a row on which one Stage invocation failed is not the row the next
\* Stage invocation selects, so a failing row does not keep the rows below it
\* from being selected
C26_FailedRowIsNotSelectedAgain ==
    [][ \A p \in Slots :
            ( /\ inv[p].kind = "stage" /\ inv[p].pc = "done"
              /\ inv[p].rowIndex # 0 /\ ~inv[p].resp.success
              /\ Starts(p, "stage") ) =>
                inv'[p].rowIndex # inv[p].rowIndex ]_vars

\* C27: two Reap invocations over the same sheet report the same rows and the
\* same totalRowsProcessed, deleteAsset is issued again for every row whose
\* asset id can be extracted, and when storage answers each of these calls
\* with "ok" or "not found" both report the same deletedCount
C27_ReapIsRepeatable ==
    \A p, q \in Slots :
        ( /\ p # q
          /\ inv[p].kind = "reap" /\ inv[p].pc = "done"
          /\ inv[q].kind = "reap" /\ inv[q].pc = "done" ) =>
            LET r1 == inv[p].resp
                r2 == inv[q].resp
                Cleaned(r) == \A n \in 1..Len(r.results) :
                                 \/ r.results[n].status = "skipped"
                                 \/ ReturnedOkOrNotFound(r.results[n])
            IN  /\ r1.totalRowsProcessed = r2.totalRowsProcessed
                /\ Len(r1.results) = Len(r2.results)
                /\ \A n \in 1..Len(r1.results) :
                       /\ r1.results[n].rowIndex = r2.results[n].rowIndex
                       /\ r1.results[n].publicId = r2.results[n].publicId
                       /\ r1.results[n].status # "skipped" =>
                              destroyed[r1.results[n].rowIndex - 1] = 2
                /\ (Cleaned(r1) /\ Cleaned(r2)) => r1.deletedCount = r2.deletedCount

\* storage answered "ok" to one invocation and "not found" to the other, and
\* both report one deleted row
C27_Witness ==
    \E p, q \in Slots :
        /\ p # q
        /\ inv[p].kind = "reap" /\ inv[p].pc = "done"
        /\ inv[q].kind = "reap" /\ inv[q].pc = "done"
        /\ Len(inv[p].resp.results) = 2
        /\ \E n \in 1..2 : /\ inv[p].resp.results[n].deleteResult = "ok"
                           /\ inv[q].resp.results[n].deleteResult = "not found"
        /\ inv[p].resp.deletedCount = 1 /\ inv[q].resp.deletedCount = 1

\* C28: the trigger is fired only after the row has been appended, and a
\* notification whose row has been appended is answered {success: true}
\* whatever the outcome of the trigger call
C28_TriggerIsOneWay ==
    \A p \in Slots :
        /\ (inv[p].kind = "ingest" /\ inv[p].pc = "trigger") =>
               /\ inv[p].rowIndex - 1 \in 1..Len(sheet)
               /\ sheet[inv[p].rowIndex - 1][1] = inv[p].data[1]
        /\ (inv[p].kind = "ingest" /\ inv[p].pc = "done" /\ inv[p].triggered) =>
               inv[p].resp.success /\ inv[p].resp.status = 200

=============================================================================
